---- MODULE Spec2Model ----
(***************************************************************************)
(* Web Content Manager: the bookmark stores of the repository.            *)
(*                                                                         *)
(*  - the SQLite store (web_content_code.py and pages/add_link.py, both    *)
(*    on the file web_content.db): tables links, tags, link_tags and       *)
(*    embeddings, written through one sqlite3 connection per script run;   *)
(*  - the DataFrame store (web_content_ai.py): a public collection kept    *)
(*    in public_links.xlsx and a per-session user collection.              *)
(*                                                                         *)
(* Strings that are searched (titles, descriptions, queries) are           *)
(* sequences of one-character strings, so that LIKE and str.contains are   *)
(* computed and not assumed.                                               *)
(***************************************************************************)
EXTENDS Integers, Sequences, FiniteSets, Bags, TLC

VARIABLES
    app,        \* the script that is running: "web_content_code", "add_link" or "web_content_ai"
    clock,      \* the latest timestamp datetime.now() has handed to a stored row
    db,         \* web_content.db as committed on disk
    pending,    \* TRUE while a connection dropped without commit still holds its open transaction
    last,       \* the last handler that ran, its arguments and its outcome
    file,       \* public_links.xlsx
    session     \* st.session_state of every browser session of web_content_ai.py

vars == <<app, clock, db, pending, last, file, session>>

----------------------------------------------------------------------------
(* Bounds and input alphabets *)

MaxClock == 2      \* number of saves that store a row in a behaviour
MaxTagId == 3      \* largest value of the tags AUTOINCREMENT sequence

Urls == {"https://a", "https://x.org"}
TagNames == {"python", "news"}

\* (title, description) pairs the forms submit
Texts ==
    { [title |-> <<"X">>, description |-> <<"d", "e", "s", "c">>],
      [title |-> <<"X", "2">>, description |-> <<"d", "e", "s", "c", "2">>] }

\* search queries; <<>> is the empty text input
Queries == { <<>>, <<"X">>, <<"x", "2">>, <<"d", "e", "s", "c">>, <<"2">>, <<"z">> }

\* tag lists the forms submit (st_tags hands over the strings as typed)
TagLists ==
    { <<>>, <<"python">>, <<"news">>, <<"python", "news">>, <<"python", "python">>,
      <<" news ">> }

\* what is typed into "Create new tag"
NewTagInputs == TagNames \cup { " " }

Range(q) == { q[i] : i \in DOMAIN q }

----------------------------------------------------------------------------
(* SQLite store: the tables and the statements the handlers execute *)

\* init_db: four empty tables; seq_links and seq_tags are the sqlite_sequence
\* rows of the two AUTOINCREMENT tables.  link_tags is a bag of rows so
\* that a duplicate row is representable.
EmptyDb ==
    [ links |-> {}, tags |-> {}, link_tags |-> EmptyBag, embeddings |-> {},
      seq_links |-> 0, seq_tags |-> 0 ]

\* Variant: a plain INSERT into a table whose url column is not UNIQUE
InsertLinkNoReplace(d, url, title, description, now) ==
    LET id == d.seq_links + 1
    IN [ d EXCEPT
           !.links = @ \cup
                     { [ id |-> id, url |-> url, title |-> title,
                         description |-> description,
                         created_at |-> now, updated_at |-> now ] },
           !.seq_links = id ]

\* INSERT OR REPLACE INTO links (url, title, description, created_at, updated_at):
\* the row that holds the url is deleted and a new row is inserted under the
\* next AUTOINCREMENT id.
InsertOrReplaceLink(d, url, title, description, now) ==
    LET id == d.seq_links + 1
    IN [ d EXCEPT
           !.links = { l \in @ : l.url # url /\ l.id # id } \cup
                     { [ id |-> id, url |-> url, title |-> title,
                         description |-> description,
                         created_at |-> now, updated_at |-> now ] },
           !.seq_links = id ]

\* link_id = c.lastrowid if c.lastrowid else SELECT id FROM links WHERE url = ?
LinkIdAfterInsert(d, url) ==
    LET lastrowid == d.seq_links
    IN IF lastrowid # 0 THEN lastrowid
       ELSE (CHOOSE l \in d.links : l.url = url).id

\* INSERT OR IGNORE INTO tags (name): the rowid is drawn from the sequence
\* before the UNIQUE check, so an ignored insert still advances the sequence.
InsertOrIgnoreTag(d, name) ==
    LET id == d.seq_tags + 1
    IN [ d EXCEPT
           !.tags = IF \E t \in @ : t.name = name THEN @
                    ELSE @ \cup { [ id |-> id, name |-> name ] },
           !.seq_tags = id ]

\* SELECT id FROM tags WHERE name = ?
SelectTagId(d, name) == (CHOOSE t \in d.tags : t.name = name).id

\* Variant: a plain INSERT into a link_tags table without its primary key
InsertLinkTagNoIgnore(d, link_id, tag_id) ==
    [ d EXCEPT
        !.link_tags = @ (+) SetToBag({ [ link_id |-> link_id, tag_id |-> tag_id ] }) ]

\* INSERT OR IGNORE INTO link_tags (link_id, tag_id), PRIMARY KEY (link_id, tag_id)
InsertOrIgnoreLinkTag(d, link_id, tag_id) ==
    LET row == [ link_id |-> link_id, tag_id |-> tag_id ]
    IN [ d EXCEPT
           !.link_tags = IF BagIn(row, @) THEN @ ELSE @ (+) SetToBag({row}) ]

\* for tag in tags: insert the tag, read its id, link it
RECURSIVE ProcessTags(_, _, _)
ProcessTags(d, link_id, tags) ==
    IF tags = <<>> THEN d
    ELSE LET d1 == InsertOrIgnoreTag(d, Head(tags))
             tag_id == SelectTagId(d1, Head(tags))
             d2 == InsertOrIgnoreLinkTag(d1, link_id, tag_id)
         IN ProcessTags(d2, link_id, Tail(tags))

\* model.encode(text): the vector the embedding model gives a text
EncodeText(text) ==
    CASE text = <<"X", " ", "d", "e", "s", "c">> -> <<10, 0>>
      [] text = <<"X", "2", " ", "d", "e", "s", "c", "2">> -> <<9, 1>>
      [] text = <<"X">> -> <<10, 0>>
      [] OTHER -> <<0, 10>>

\* model.encode(f"{title} {description}")
Encode(title, description) == EncodeText(title \o <<" ">> \o description)

\* INSERT OR REPLACE INTO embeddings (link_id, embedding)
InsertOrReplaceEmbedding(d, link_id, embedding) ==
    [ d EXCEPT
        !.embeddings = { e \in @ : e.link_id # link_id } \cup
                       { [ link_id |-> link_id, embedding |-> embedding ] } ]

\* DELETE FROM links WHERE id = ?
DeleteLinkRow(d, link_id) ==
    [ d EXCEPT !.links = { l \in @ : l.id # link_id } ]

\* DELETE FROM link_tags WHERE link_id = ?
DeleteLinkTags(d, link_id) ==
    LET kept == { r \in DOMAIN d.link_tags : r.link_id # link_id }
    IN [ d EXCEPT !.link_tags = [ r \in kept |-> d.link_tags[r] ] ]

\* Variant: delete_link without its third DELETE
DeleteEmbeddingSkipped(d, link_id) == d

\* DELETE FROM embeddings WHERE link_id = ?
DeleteEmbedding(d, link_id) ==
    [ d EXCEPT !.embeddings = { e \in @ : e.link_id # link_id } ]

\* DELETE FROM tags WHERE name = ?
DeleteTagRow(d, tag_name) ==
    [ d EXCEPT !.tags = { t \in @ : t.name # tag_name } ]

----------------------------------------------------------------------------
(* SQLite store: what the sections read *)

\* SQLite's LIKE folds the case of ASCII letters
Lower(c) == IF c = "X" THEN "x" ELSE c

LowerSeq(q) == [ i \in DOMAIN q |-> Lower(q[i]) ]

Contains(hay, needle) ==
    \E i \in 0 .. (Len(hay) - Len(needle)) :
        SubSeq(hay, i + 1, i + Len(needle)) = needle

\* column LIKE '%query%'
Like(column, query) == Contains(LowerSeq(column), LowerSeq(query))

\* names of the tags joined to a link: link_tags JOIN tags ON tag_id = id
LinkTagNames(d, link_id) ==
    { t.name : t \in { t \in d.tags :
          BagIn([ link_id |-> link_id, tag_id |-> t.id ], d.link_tags) } }

\* browse_section: the rows of the listing for the selected tags
browse_section(d, selected_tags) ==
    IF selected_tags = {} THEN d.links
    ELSE { l \in d.links :
             Cardinality(LinkTagNames(d, l.id) \cap selected_tags)
                 = Cardinality(selected_tags) }

\* Variant: WHERE title LIKE ?
KeywordSearchTitleOnly(d, search_query) ==
    { l \in d.links : Like(l.title, search_query) }

\* tags_section: SELECT t.name, COUNT(lt.link_id) FROM tags t LEFT JOIN
\* link_tags lt ON t.id = lt.tag_id GROUP BY t.name, the count shown for a tag
tags_section(d, name) ==
    LET ids == { t.id : t \in { t \in d.tags : t.name = name } }
        joined == { r \in DOMAIN d.link_tags : r.tag_id \in ids }
    IN BagCardinality([ r \in joined |-> d.link_tags[r] ])

\* search_section, Keyword: title LIKE ? OR description LIKE ?
keyword_search(d, search_query) ==
    { l \in d.links : Like(l.title, search_query) \/ Like(l.description, search_query) }

\* Variant: LEFT JOIN, a link without an embedding row is scored too
SemanticCandidatesLeftJoin(d) == d.links

\* search_section, Semantic: links l JOIN embeddings e ON l.id = e.link_id
semantic_candidates(d) ==
    { l \in d.links : \E e \in d.embeddings : e.link_id = l.id }

\* the stored vector the join pairs with a link (the zero vector stands for
\* a link that has none; only the LEFT JOIN variant meets it)
StoredEmbedding(d, link_id) ==
    IF \E e \in d.embeddings : e.link_id = link_id
    THEN (CHOOSE e \in d.embeddings : e.link_id = link_id).embedding
    ELSE <<0, 0>>

\* fetchall() of a scan of links: SQLite walks the table in rowid order
RECURSIVE RowidOrder(_)
RowidOrder(ids) ==
    IF ids = {} THEN <<>>
    ELSE LET id == CHOOSE x \in ids : \A y \in ids : x <= y
         IN <<id>> \o RowidOrder(ids \ { id })

\* Variant: the join hands over its rows from the largest link id down
SemanticRowsReversed(d) ==
    LET rows == RowidOrder({ l.id : l \in semantic_candidates(d) })
    IN [ i \in 1 .. Len(rows) |-> rows[Len(rows) + 1 - i] ]

\* embeddings = c.execute("SELECT ... FROM links l JOIN embeddings e ...").fetchall():
\* the link ids of the joined rows, in the order of the scan of links
semantic_rows(d) == RowidOrder({ l.id : l \in semantic_candidates(d) })

Dot(a, b) == a[1] * b[1] + a[2] * b[2]

\* cosine_similarity([query_embedding], [u]) > cosine_similarity([query_embedding], [v]),
\* compared without the division and the square roots:
\* (q.u) / |u| > (q.v) / |v|; a zero vector has similarity 0
MoreSimilar(q, u, v) ==
    LET a == Dot(q, u)
        b == Dot(q, v)
        lhs == a * a * Dot(v, v)
        rhs == b * b * Dot(u, u)
    IN CASE Dot(u, u) = 0 -> b < 0
         [] Dot(v, v) = 0 -> a > 0
         [] a >= 0 /\ b >= 0 -> lhs > rhs
         [] a >= 0 /\ b < 0 -> TRUE
         [] a < 0 /\ b >= 0 -> FALSE
         [] OTHER -> lhs < rhs

\* results.sort(key=lambda x: x[3], reverse=True): a stable sort, rows of
\* equal similarity keep the order in which they were fetched
RECURSIVE SortBySimilarity(_, _, _)
SortBySimilarity(d, q, ids) ==
    IF ids = <<>> THEN <<>>
    ELSE LET n == Len(ids)
             sorted == SortBySimilarity(d, q, SubSeq(ids, 1, n - 1))
             x == ids[n]
             p == Cardinality({ i \in DOMAIN sorted :
                      ~MoreSimilar(q, StoredEmbedding(d, x), StoredEmbedding(d, sorted[i])) })
         IN SubSeq(sorted, 1, p) \o <<x>> \o SubSeq(sorted, p + 1, Len(sorted))

\* results[:20]
Top20(results) == SubSeq(results, 1, IF Len(results) < 20 THEN Len(results) ELSE 20)

\* search_section: the ids of the results shown for a query, in order.  The
\* Search button is disabled while the query is empty; "Semantic" is offered
\* only when the model is loaded.
search_section(d, model, search_type, search_query) ==
    IF search_query = <<>> THEN <<>>
    ELSE IF search_type = "Keyword"
         THEN Top20(RowidOrder({ l.id : l \in keyword_search(d, search_query) }))
         ELSE IF model
              THEN Top20(SortBySimilarity(d, EncodeText(search_query), semantic_rows(d)))
              ELSE <<>>

----------------------------------------------------------------------------
(* SQLite store: the handlers.  Every script run opens its own connection  *)
(* (main: conn = init_db()); a handler that raises before conn.commit()    *)
(* leaves its writes in that connection's open transaction.  The           *)
(* connection is never closed by the code: the transaction is rolled back  *)
(* when the interpreter collects the connection, and until then it holds   *)
(* the write lock of the file ("database is locked" for other writers).    *)

NoLast ==
    [ op |-> "init", url |-> "", tags |-> <<>>, link_id |-> 0, prev_id |-> 0,
      name |-> "", model |-> FALSE, fault |-> "none", outcome |-> "none",
      message |-> "", sid |-> "", owner_mode |-> FALSE, had |-> {},
      replaced |-> {}, selected |-> {} ]

\* a handler's except branch ran: st.error(...), nothing else
Raised(op, fault) == [ NoLast EXCEPT !.op = op, !.fault = fault, !.outcome = "error" ]

SqliteApps == { "web_content_code", "add_link" }

\* The first write of a handler finds the file locked by a dropped
\* connection that was not collected yet: the statement raises, the except
\* branch reports it.
WriteLocked(op) ==
    /\ pending
    /\ last' = Raised(op, "locked")
    /\ UNCHANGED <<app, clock, db, pending, file, session>>

\* id of the links row that holds url, 0 when there is none
IdOfUrl(d, url) ==
    IF \E l \in d.links : l.url = url
    THEN (CHOOSE l \in d.links : l.url = url).id
    ELSE 0

\* the queries that find the stored row of url by its title or description
MatchedBy(d, url) ==
    { q \in Queries : \E l \in keyword_search(d, q) : l.url = url }

\* the database after each statement group of save_link
SaveLinkSteps(d, model, url, title, description, tags, now) ==
    LET s1 == InsertOrReplaceLink(d, url, title, description, now)
        link_id == LinkIdAfterInsert(s1, url)
        s2 == ProcessTags(s1, link_id, tags)
        s3 == IF model
              THEN InsertOrReplaceEmbedding(s2, link_id, Encode(title, description))
              ELSE s2
    IN [ link_id |-> link_id, after_link |-> s1, after_tags |-> s2, done |-> s3 ]

\* what the connection has written when save_link raises at fault
\* (the insert of tag number k + 1, model.encode, or the embedding insert)
SaveLinkPartial(steps, tags, fault, k) ==
    IF fault = "tags"
    THEN ProcessTags(steps.after_link, steps.link_id, SubSeq(tags, 1, k))
    ELSE steps.after_tags

\* Variant: the except branch (or a finally) commits what was written
SaveLinkFailedCommits(d, partial) == partial

\* save_link raised before conn.commit(): the except branch only reports the
\* error; what the connection wrote stays in its open transaction and the
\* file keeps its committed contents
SaveLinkFailed(d, partial) == d

\* save_link runs to conn.commit()
SaveLinkCommits(model, url, text, tags) ==
    /\ clock < MaxClock
    /\ db.seq_tags + Len(tags) <= MaxTagId
    /\ LET now == clock + 1
           steps == SaveLinkSteps(db, model, url, text.title, text.description, tags, now)
       IN /\ clock' = now
          /\ db' = steps.done
          /\ last' = [ NoLast EXCEPT
                         !.op = "save_link", !.url = url, !.tags = tags,
                         !.model = model, !.link_id = steps.link_id,
                         !.prev_id = IdOfUrl(db, url),
                         !.replaced = MatchedBy(db, url), !.outcome = "ok" ]
    /\ pending' = FALSE
    /\ UNCHANGED <<app, file, session>>

SaveFaults == { "tags", "encode", "embedding_write" }

\* the calls of save_link that can raise at fault: a tag insert needs a tag,
\* model.encode and the embedding insert need a model
SaveInputs(models, fault) ==
    { in \in [ url : Urls, text : Texts, tags : TagLists, k : 0 .. 1, model : models ] :
        /\ db.seq_tags + Len(in.tags) <= MaxTagId
        /\ IF fault = "tags" THEN in.k < Len(in.tags) ELSE in.k = 0 /\ in.model }

\* save_link raises after the links row was written
SaveLinkRaises(models, fault) ==
    /\ clock < MaxClock
    /\ db' \in { SaveLinkFailed(db, SaveLinkPartial(
                     SaveLinkSteps(db, in.model, in.url, in.text.title,
                                   in.text.description, in.tags, clock + 1),
                     in.tags, fault, in.k)) : in \in SaveInputs(models, fault) }
    /\ pending' = TRUE
    /\ last' = Raised("save_link", fault)
    /\ UNCHANGED <<app, clock, file, session>>

\* web_content_code.py: add_link_section -> save_link(conn, model, ...);
\* model is None when load_model failed
save_link ==
    /\ app = "web_content_code"
    /\ \/ \E url \in Urls, text \in Texts, tags \in TagLists, model \in BOOLEAN :
            SaveLinkCommits(model, url, text, tags)
       \/ \E fault \in SaveFaults : SaveLinkRaises(BOOLEAN, fault)
       \/ WriteLocked("save_link")

\* pages/add_link.py: main returns before the form when the model is None
add_link_page ==
    /\ app = "add_link"
    /\ \/ \E url \in Urls, text \in Texts, tags \in TagLists :
            SaveLinkCommits(TRUE, url, text, tags)
       \/ \E fault \in SaveFaults : SaveLinkRaises({ TRUE }, fault)
       \/ WriteLocked("save_link")

\* the database after each DELETE of delete_link
DeleteLinkSteps(d, link_id) ==
    LET s1 == DeleteLinkRow(d, link_id)
        s2 == DeleteLinkTags(s1, link_id)
        s3 == DeleteEmbedding(s2, link_id)
    IN [ after_links |-> s1, after_link_tags |-> s2, done |-> s3 ]

\* the tables that hold a row for link_id
TablesWith(d, link_id) ==
    { "links" : l \in { l \in d.links : l.id = link_id } } \cup
    { "link_tags" : r \in { r \in BagToSet(d.link_tags) : r.link_id = link_id } } \cup
    { "embeddings" : e \in { e \in d.embeddings : e.link_id = link_id } }

\* the DELETE that raises
DeleteFaults == { "link_tags", "embeddings" }

\* delete_link raised before conn.commit(): as for save_link
DeleteLinkFailed(d, partial) == d

\* delete_link(conn, link_id), for any id the links table has issued
delete_link ==
    /\ app = "web_content_code"
    /\ \/ \E link_id \in 1 .. db.seq_links :
            /\ db' = DeleteLinkSteps(db, link_id).done
            /\ pending' = FALSE
            /\ last' = [ NoLast EXCEPT !.op = "delete_link",
                           !.link_id = link_id, !.had = TablesWith(db, link_id),
                           !.outcome = "ok", !.message = "Link deleted" ]
            /\ UNCHANGED <<app, clock, file, session>>
       \/ \E fault \in DeleteFaults :
            /\ db.seq_links > 0
            /\ db' \in { DeleteLinkFailed(db,
                             IF fault = "link_tags"
                             THEN DeleteLinkSteps(db, link_id).after_links
                             ELSE DeleteLinkSteps(db, link_id).after_link_tags) :
                         link_id \in 1 .. db.seq_links }
            /\ pending' = TRUE
            /\ last' = Raised("delete_link", fault)
            /\ UNCHANGED <<app, clock, file, session>>
       \/ db.seq_links > 0 /\ WriteLocked("delete_link")

\* delete_tag(conn, tag_name), from the button tags_section shows for a stored tag
delete_tag ==
    /\ app = "web_content_code"
    /\ \/ \E tag_name \in { t.name : t \in db.tags } :
            /\ db' = DeleteTagRow(db, tag_name)
            /\ pending' = FALSE
            /\ last' = [ NoLast EXCEPT !.op = "delete_tag", !.name = tag_name,
                           !.outcome = "ok" ]
            /\ UNCHANGED <<app, clock, file, session>>
       \/ db.tags # {} /\ WriteLocked("delete_tag")

\* tags_section, "Add Tag" (st.button("Add Tag") and new_tag):
\* INSERT OR IGNORE INTO tags (name); commit
add_tag ==
    /\ app = "web_content_code"
    /\ db.seq_tags < MaxTagId
    /\ \/ \E new_tag \in NewTagInputs :
            /\ db' = InsertOrIgnoreTag(db, new_tag)
            /\ pending' = FALSE
            /\ last' = [ NoLast EXCEPT !.op = "add_tag", !.name = new_tag,
                           !.outcome = "ok" ]
            /\ UNCHANGED <<app, clock, file, session>>
       \/ WriteLocked("add_tag")

----------------------------------------------------------------------------
(* DataFrame store (web_content_ai.py): a DataFrame is the sequence of its *)
(* rows; public_links.xlsx holds the public rows without the source column *)
(* and with the tags of a row joined into one cell.                        *)

Sessions == { "s1", "s2" }

NoFile == [ exists |-> FALSE, rows |-> <<>> ]

\* st.session_state of a browser session before its first script run.  wrote
\* is history, not program state: the urls the session has saved in Owner
\* Mode with a successful file write and has not deleted since.
NewSession == [ started |-> FALSE, public_df |-> <<>>, user_df |-> <<>>, wrote |-> {} ]

\* str(tag).strip()
Strip(tag) ==
    CASE tag = " " -> ""
      [] tag = " news " -> "news"
      [] OTHER -> tag

\* [str(tag).strip() for tag in tags if str(tag).strip()]
RECURSIVE CleanTags(_)
CleanTags(tags) ==
    IF tags = <<>> THEN <<>>
    ELSE IF Strip(Head(tags)) # ""
         THEN <<Strip(Head(tags))>> \o CleanTags(Tail(tags))
         ELSE CleanTags(Tail(tags))

\* save_data: ','.join(map(str, x)) of the tags; openpyxl writes '' as an empty cell
JoinTags(tags) ==
    IF tags = <<>> THEN [ nan |-> TRUE, parts |-> <<>> ]
    ELSE [ nan |-> FALSE, parts |-> tags ]

\* init_data: x.split(',') of a string cell, [] of an empty (NaN) cell
SplitTags(cell) == IF cell.nan THEN <<>> ELSE cell.parts

\* save_data: the row as written, without the source column
ToFileRow(r) ==
    [ id |-> r.id, url |-> r.url, title |-> r.title, description |-> r.description,
      tags |-> JoinTags(r.tags), created_at |-> r.created_at, updated_at |-> r.updated_at ]

\* init_data: the row as loaded, df['source'] = 'Public'
FromFileRow(fr) ==
    [ id |-> fr.id, url |-> fr.url, title |-> fr.title, description |-> fr.description,
      tags |-> SplitTags(fr.tags), created_at |-> fr.created_at,
      updated_at |-> fr.updated_at, source |-> "Public" ]

\* init_data(): the public DataFrame read from public_links.xlsx, empty when
\* the file does not exist
init_data(f) ==
    IF f.exists THEN [ i \in DOMAIN f.rows |-> FromFileRow(f.rows[i]) ] ELSE <<>>

\* Variant: the write keeps the rows of the file whose url df does not hold
SaveDataMerged(df, f, write_ok) ==
    IF write_ok
    THEN [ exists |-> TRUE,
           rows |-> [ i \in DOMAIN df |-> ToFileRow(df[i]) ] \o
                    SelectSeq(f.rows, LAMBDA fr : \A i \in DOMAIN df : df[i].url # fr.url) ]
    ELSE f

\* save_data(df, excel_file): the file after df.to_excel, or the file as it
\* was when the write raises (the function then returns False)
save_data(df, f, write_ok) ==
    IF write_ok
    THEN [ exists |-> TRUE, rows |-> [ i \in DOMAIN df |-> ToFileRow(df[i]) ] ]
    ELSE f

SeqMax(S) == CHOOSE x \in S : \A y \in S : y <= x
SeqMin(S) == CHOOSE x \in S : \A y \in S : x <= y

\* save_link(df, url, title, description, tags, source): update the first row
\* that holds url, or append a row under id max + 1
df_save_link(df, url, title, description, tags, source, now) ==
    LET existing_index == { i \in DOMAIN df : df[i].url = url }
    IN IF existing_index # {}
       THEN LET idx == SeqMin(existing_index)
            IN [ df |-> [ df EXCEPT ![idx] =
                            [ @ EXCEPT !.title = title, !.description = description,
                                       !.tags = CleanTags(tags), !.updated_at = now,
                                       !.source = source ] ],
                 action |-> "updated" ]
       ELSE LET new_id == IF df # <<>>
                          THEN SeqMax({ df[i].id : i \in DOMAIN df }) + 1
                          ELSE 1
                new_entry == [ id |-> new_id, url |-> url, title |-> title,
                               description |-> description, tags |-> CleanTags(tags),
                               created_at |-> now, updated_at |-> now,
                               source |-> source ]
            IN [ df |-> Append(df, new_entry), action |-> "saved" ]

\* df[~df['url'].isin(selected_urls)]
DropUrls(df, selected_urls) ==
    SelectSeq(df, LAMBDA r : r.url \notin selected_urls)

\* Variant: the public rows are dropped whatever the mode
PublicAfterDeleteAnyMode(public_df, selected_urls, owner_mode) ==
    DropUrls(public_df, selected_urls)

\* delete_selected_links: the public DataFrame it returns; only the owner
\* branch filters it
PublicAfterDelete(public_df, selected_urls, owner_mode) ==
    IF owner_mode THEN DropUrls(public_df, selected_urls) ELSE public_df

\* browse_section: combined_df = pd.concat([public_df, user_df])
combined_df(s) == session[s].public_df \o session[s].user_df

UrlsOf(df) == { df[i].url : i \in DOMAIN df }

\* the characters of a url or of a tag
Chars(str) ==
    CASE str = "https://a" -> <<"h", "t", "t", "p", "s", ":", "/", "/", "a">>
      [] str = "https://x.org" ->
             <<"h", "t", "t", "p", "s", ":", "/", "/", "x", ".", "o", "r", "g">>
      [] str = "python" -> <<"p", "y", "t", "h", "o", "n">>
      [] str = "news" -> <<"n", "e", "w", "s">>
      [] OTHER -> <<>>

\* browse_section: the options of "Filter by tags"
all_tags(df) == UNION { Range(df[i].tags) : i \in DOMAIN df }

\* browse_section, search form: the mask over title, url, description and tags
SearchMask(r, search_query) ==
    LET search_lower == LowerSeq(search_query)
    IN \/ Contains(LowerSeq(r.title), search_lower)
       \/ Contains(LowerSeq(Chars(r.url)), search_lower)
       \/ Contains(LowerSeq(r.description), search_lower)
       \/ \E k \in DOMAIN r.tags : Contains(LowerSeq(Chars(r.tags[k])), search_lower)

\* browse_section, tag filter: any(tag in row tags for tag in selected_tags)
TagMask(r, selected_tags) == \E tag \in selected_tags : tag \in Range(r.tags)

\* browse_section: filtered_df for a search query and a tag selection
df_browse_section(df, search_query, submitted, selected_tags) ==
    LET searched == IF search_query # <<>> \/ submitted
                    THEN SelectSeq(df, LAMBDA r : SearchMask(r, search_query))
                    ELSE df
    IN IF selected_tags # {}
       THEN SelectSeq(searched, LAMBDA r : TagMask(r, selected_tags))
       ELSE searched

\* main, first script run of a browser session: 'public_df' is not in
\* st.session_state, init_data() loads the file
first_run ==
    \E s \in Sessions :
        /\ app = "web_content_ai"
        /\ ~session[s].started
        /\ session' = [ session EXCEPT ![s] =
                          [ started |-> TRUE, public_df |-> init_data(file),
                            user_df |-> <<>>, wrote |-> {} ] ]
        /\ last' = [ NoLast EXCEPT !.op = "first_run", !.sid = s, !.outcome = "ok" ]
        /\ UNCHANGED <<app, clock, db, pending, file>>

\* add_link_section, form submitted with a url and a title; main stores the
\* returned public_df and user_df in st.session_state
add_link_section ==
    \E s \in Sessions, owner_mode \in BOOLEAN, url \in Urls, text \in Texts,
       tags \in TagLists, write_ok \in BOOLEAN :
        /\ app = "web_content_ai"
        /\ session[s].started
        /\ clock < MaxClock
        /\ ~owner_mode => write_ok
        /\ LET now == clock + 1
               target == IF owner_mode THEN session[s].public_df ELSE session[s].user_df
               saved == df_save_link(target, url, text.title, text.description, tags,
                                     IF owner_mode THEN "Public" ELSE "User", now)
           IN /\ clock' = now
              /\ file' = IF owner_mode THEN save_data(saved.df, file, write_ok) ELSE file
              /\ session' = [ session EXCEPT ![s] =
                                IF owner_mode
                                THEN [ @ EXCEPT !.public_df = saved.df,
                                                !.wrote = IF write_ok THEN @ \cup { url }
                                                          ELSE @ ]
                                ELSE [ @ EXCEPT !.user_df = saved.df ] ]
              /\ last' = [ NoLast EXCEPT
                             !.op = "add_link", !.sid = s, !.owner_mode = owner_mode,
                             !.url = url, !.tags = tags,
                             !.prev_id = IF url \in UrlsOf(target) THEN 1 ELSE 0,
                             !.outcome = IF write_ok THEN saved.action ELSE "write_failed" ]
        /\ UNCHANGED <<app, db, pending>>

\* delete_selected_links, from the button browse_section shows when rows of
\* the table are ticked
delete_selected_links ==
    \E s \in Sessions, owner_mode \in BOOLEAN, write_ok \in BOOLEAN :
      \E selected_urls \in SUBSET UrlsOf(combined_df(s)) :
        /\ app = "web_content_ai"
        /\ session[s].started
        /\ selected_urls # {}
        /\ LET public_df == PublicAfterDelete(session[s].public_df, selected_urls, owner_mode)
               user_df == DropUrls(session[s].user_df, selected_urls)
               saves == owner_mode /\ \E i \in DOMAIN public_df : public_df[i].source = "Public"
           IN /\ write_ok \/ saves
              /\ file' = IF saves THEN save_data(public_df, file, write_ok) ELSE file
              /\ session' = [ session EXCEPT ![s] =
                                [ @ EXCEPT !.public_df = public_df, !.user_df = user_df,
                                           !.wrote = IF owner_mode THEN @ \ selected_urls
                                                     ELSE @ ] ]
              /\ last' = [ NoLast EXCEPT
                             !.op = "delete_selected", !.sid = s,
                             !.owner_mode = owner_mode, !.selected = selected_urls,
                             !.outcome = IF write_ok THEN "ok" ELSE "write_failed" ]
        /\ UNCHANGED <<app, clock, db, pending>>

----------------------------------------------------------------------------
(* The system *)

Init ==
    /\ app \in SqliteApps \cup { "web_content_ai" }
    /\ clock = 0
    /\ db = EmptyDb
    /\ pending = FALSE
    /\ last = NoLast
    /\ file = NoFile
    /\ session = [ s \in Sessions |-> NewSession ]

Next ==
    \/ save_link
    \/ add_link_page
    \/ delete_link
    \/ delete_tag
    \/ add_tag
    \/ first_run
    \/ add_link_section
    \/ delete_selected_links

Spec == Init /\ [][Next]_vars

----------------------------------------------------------------------------
(* Properties *)

LinkTagRows(d) == BagToSet(d.link_tags)

SaveOk == last.op = "save_link" /\ last.outcome = "ok"

\* the DataFrame add_link_section handed to save_link in the last run
TargetDf == IF last.owner_mode THEN session[last.sid].public_df
            ELSE session[last.sid].user_df

RowsOfUrl(df, url) == { i \in DOMAIN df : df[i].url = url }

\* C1: a save of a url that is already stored leaves exactly one row for the
\* url, and that row has the id the url had before the save (SQLite store and
\* DataFrame store).
C1_ResaveKeepsId ==
    [][ /\ (last'.op = "save_link" /\ last'.outcome = "ok" /\ last'.prev_id # 0) =>
              /\ Cardinality({ l \in db'.links : l.url = last'.url }) = 1
              /\ IdOfUrl(db', last'.url) = last'.prev_id
        /\ (last'.op = "add_link" /\ last'.prev_id # 0) =>
              \A s \in Sessions : \A i \in DOMAIN session[s].public_df :
                  /\ session[s].public_df[i].url = last'.url
                  /\ last'.sid = s /\ last'.owner_mode
                  => /\ Len(session'[s].public_df) = Len(session[s].public_df)
                     /\ session'[s].public_df[i].id = session[s].public_df[i].id
      ]_vars

\* C2: no two rows of the links table have the same url.
C2_UrlUnique ==
    \A l1 \in db.links : \A l2 \in db.links : l1.url = l2.url => l1 = l2

\* a url was saved again and the table holds rows
C2_Witness == SaveOk /\ last.prev_id # 0 /\ db.links # {}

\* C3: the collection browse_section shows (public rows followed by the
\* session's user rows) holds at most one row per url.
C3_CombinedUrlUnique ==
    \A s \in Sessions :
        \A i \in DOMAIN combined_df(s) : \A j \in DOMAIN combined_df(s) :
            combined_df(s)[i].url = combined_df(s)[j].url => i = j

\* C4: after delete_link(link_id) has committed, no row of links, link_tags
\* or embeddings carries link_id, and the link is in no browse listing, no
\* keyword search result and no semantic search result.
C4_DeleteCascades ==
    (last.op = "delete_link" /\ last.outcome = "ok") =>
        /\ TablesWith(db, last.link_id) = {}
        /\ \A selected_tags \in SUBSET TagNames :
              \A l \in browse_section(db, selected_tags) : l.id # last.link_id
        /\ \A q \in Queries : \A l \in keyword_search(db, q) : l.id # last.link_id
        /\ \A l \in semantic_candidates(db) : l.id # last.link_id

\* a link that had a row in each of the three tables was deleted
C4_Witness ==
    /\ last.op = "delete_link" /\ last.outcome = "ok"
    /\ last.had = { "links", "link_tags", "embeddings" }

\* C5: every row of link_tags references a link_id that is in links and a
\* tag_id that is in tags.
C5_LinkTagsReferential ==
    \A r \in LinkTagRows(db) :
        /\ \E l \in db.links : l.id = r.link_id
        /\ \E t \in db.tags : t.id = r.tag_id

\* C6: delete_tag(name) removes the tag row named name and every link_tags
\* row that references its id, and changes neither the links table nor any
\* other tag or association.
C6_DeleteTagRemovesAssociations ==
    [][ (last'.op = "delete_tag" /\ last'.outcome = "ok") =>
            LET ids == { t.id : t \in { t \in db.tags : t.name = last'.name } }
            IN /\ db'.tags = { t \in db.tags : t.name # last'.name }
               /\ LinkTagRows(db') = { r \in LinkTagRows(db) : r.tag_id \notin ids }
               /\ db'.links = db.links
      ]_vars

\* C7: every row of embeddings has the id of a row of links, and no link has
\* two embedding rows.
C7_EmbeddingsReferential ==
    /\ \A e \in db.embeddings : \E l \in db.links : l.id = e.link_id
    /\ \A e1 \in db.embeddings : \A e2 \in db.embeddings :
          e1.link_id = e2.link_id => e1 = e2

\* C8: a save_link or delete_link that raises after it has written leaves the
\* committed tables (and the two sequences) exactly as they were before the
\* call, which is all that a later run, on its own connection, reads.
C8_FailedCallChangesNothing ==
    [][ (last'.outcome = "error" /\ last'.op \in { "save_link", "delete_link" })
            => db' = db ]_vars

\* a save_link raised at the embedding insert, after the links row and the
\* tag rows were written
C8_Witness ==
    /\ last.op = "save_link" /\ last.outcome = "error"
    /\ last.fault = "embedding_write" /\ pending

\* C9: a save_link that has no model, or whose model.encode raises, still
\* commits the links row, and the link has no embedding row.
C9_SaveSurvivesEmbeddingFailure ==
    (last.op = "save_link" /\ (last.fault = "encode" \/ (last.outcome = "ok" /\ ~last.model))) =>
        /\ last.outcome = "ok"
        /\ \E l \in db.links : l.id = last.link_id
        /\ \A e \in db.embeddings : e.link_id # last.link_id

C11_TagNamesTrimmed ==
    /\ \A t \in db.tags : t.name # "" /\ Strip(t.name) = t.name
    /\ \A s \in Sessions : \A i \in DOMAIN combined_df(s) :
          \A k \in DOMAIN combined_df(s)[i].tags :
              LET tag == combined_df(s)[i].tags[k]
              IN tag # "" /\ Strip(tag) = tag

\* C12: creating a tag name that is stored leaves one tags row of that name
\* under the id it had (a successful save_link or Add Tag removes or changes
\* no tags row, and names stay unique), and every (link_id, tag_id) pair is
\* stored once in link_tags, also when a save names the same tag twice.
C12_TagCreationIdempotent ==
    [][ /\ \A t1 \in db'.tags : \A t2 \in db'.tags : t1.name = t2.name => t1 = t2
        /\ \A r \in DOMAIN db'.link_tags : CopiesIn(r, db'.link_tags) = 1
        /\ (last'.op \in { "save_link", "add_tag" } /\ last'.outcome = "ok")
              => db.tags \subseteq db'.tags
      ]_vars

\* a save whose tag list names python twice committed: the second insert of
\* the name was ignored and the pair is linked once
C12_Witness ==
    /\ SaveOk /\ last.tags = <<"python", "python">>
    /\ \E t \in db.tags :
          /\ t.name = "python" /\ t.id < db.seq_tags
          /\ CopiesIn([ link_id |-> last.link_id, tag_id |-> t.id ], db.link_tags) = 1

\* C13: for every non-empty selection of tags the filter offers, the browse
\* listing holds a link exactly when the link carries every selected tag
\* (SQLite store: the tags joined to the link; DataFrame store: the tags of
\* the row).
C13_TagFilterIsAnd ==
    /\ \A selected_tags \in (SUBSET { t.name : t \in db.tags }) \ { {} } :
          \A l \in db.links :
              l \in browse_section(db, selected_tags)
                  <=> selected_tags \subseteq LinkTagNames(db, l.id)
    /\ \A s \in Sessions :
          \A selected_tags \in (SUBSET all_tags(combined_df(s))) \ { {} } :
              \A i \in DOMAIN combined_df(s) :
                  combined_df(s)[i] \in
                      Range(df_browse_section(combined_df(s), <<>>, FALSE, selected_tags))
                  <=> selected_tags \subseteq Range(combined_df(s)[i].tags)

\* C14: a search submitted with the empty query shows no link: neither
\* search type of search_section (SQLite store) nor the search form of
\* browse_section (DataFrame store).
C14_EmptyQueryFindsNothing ==
    /\ \A search_type \in { "Keyword", "Semantic" } :
          search_section(db, TRUE, search_type, <<>>) = <<>>
    /\ \A s \in Sessions :
          df_browse_section(combined_df(s), <<>>, TRUE, {}) = <<>>

TextOfUrl(d, url, title, description) ==
    \E l \in d.links : l.url = url /\ l.title = title /\ l.description = description

\* first step of the scenario: the first save of the run stored https://x.org as (X, desc)
ScenarioFirstSave ==
    /\ SaveOk /\ clock = 1 /\ last.url = "https://x.org"
    /\ TextOfUrl(db, "https://x.org", <<"X">>, <<"d", "e", "s", "c">>)

\* second step: the next save stored the same url as (X2, desc2) over the row (X, desc)
ScenarioSecondSave ==
    /\ SaveOk /\ clock = 2 /\ last.url = "https://x.org" /\ last.prev_id = 1
    /\ last.replaced = { <<>>, <<"X">>, <<"d", "e", "s", "c">> }
    /\ TextOfUrl(db, "https://x.org", <<"X", "2">>, <<"d", "e", "s", "c", "2">>)

\* C16: after the first save of the scenario the url has id 1 and keyword
\* search for X returns [1]; after the second save the url still has id 1,
\* keyword search for X2 returns [1] and keyword search for X returns nothing.
C16_RetitleScenario ==
    /\ ScenarioFirstSave =>
          /\ IdOfUrl(db, "https://x.org") = 1
          /\ search_section(db, FALSE, "Keyword", <<"X">>) = <<1>>
    /\ ScenarioSecondSave =>
          /\ IdOfUrl(db, "https://x.org") = 1
          /\ search_section(db, FALSE, "Keyword", <<"X", "2">>) = <<1>>
          /\ search_section(db, FALSE, "Keyword", <<"X">>) = <<>>

C18_SemanticScoresEmbeddedLinks ==
    \A q \in Queries \ { <<>> } :
        LET results == search_section(db, TRUE, "Semantic", q)
        IN /\ Range(results) =
                 { l.id : l \in { l \in db.links :
                                    \E e \in db.embeddings : e.link_id = l.id } }
           /\ Cardinality(Range(results)) = Len(results)

\* a link saved without a model is stored next to a link that a semantic
\* search returns
C18_Witness ==
    /\ \E l \in db.links : \A e \in db.embeddings : e.link_id # l.id
    /\ \E q \in Queries \ { <<>> } : search_section(db, TRUE, "Semantic", q) # <<>>

\* C19: a delete_link whose link_id is the id of no links row, and that does
\* not raise, leaves the database as it was and reports "not found".
C19_DeleteMissingReportsNotFound ==
    [][ ( /\ last'.op = "delete_link" /\ last'.outcome # "error"
          /\ \A l \in db.links : l.id # last'.link_id )
            => db' = db /\ last'.message = "not found"
      ]_vars

\* C20: a save of a url that is already stored leaves the created_at of its
\* row as it was (SQLite store: the links row of the url; DataFrame store:
\* the row of the url in the collection the save was handed).
C20_CreatedAtSetOnce ==
    [][ /\ (last'.op = "save_link" /\ last'.outcome = "ok" /\ last'.prev_id # 0) =>
              \A l1 \in db.links : \A l2 \in db'.links :
                  (l1.url = last'.url /\ l2.url = last'.url)
                      => l2.created_at = l1.created_at
        /\ (last'.op = "add_link" /\ last'.prev_id # 0) =>
              LET before == IF last'.owner_mode THEN session[last'.sid].public_df
                            ELSE session[last'.sid].user_df
                  after == IF last'.owner_mode THEN session'[last'.sid].public_df
                           ELSE session'[last'.sid].user_df
              IN \A i \in RowsOfUrl(before, last'.url) :
                    i \in DOMAIN after /\ after[i].created_at = before[i].created_at
      ]_vars

\* an Owner Mode add or delete of the last run wrote the file without error
OwnerWriteDone(l, public_df) ==
    /\ l.owner_mode /\ l.outcome # "write_failed"
    /\ \/ l.op = "add_link"
       \/ l.op = "delete_selected" /\ public_df # <<>>

\* C21: a session's public collection changes only in that session's own
\* runs (it is loaded from the file once, at the first run), and every
\* successful Owner Mode write leaves in the file exactly the collection of
\* the session that wrote, whatever the file held; so a link another session
\* persisted, and the writer never loaded, is gone from the file without an
\* error in either session.
C21_WholeFileOverwrite ==
    [][ /\ \A s \in Sessions :
              session'[s].public_df # session[s].public_df => last'.sid = s
        /\ \A s \in Sessions :
              (session[s].started /\ last'.op = "first_run") =>
                  session'[s].public_df = session[s].public_df
        /\ OwnerWriteDone(last', session'[last'.sid].public_df) =>
              /\ file'.exists
              /\ init_data(file') = session'[last'.sid].public_df
      ]_vars

\* a session's Owner Mode save was written without error, and a url that the
\* other session saved and persisted, and has not deleted, is not in the file
C21_Witness ==
    /\ last.op = "add_link" /\ last.owner_mode
    /\ last.outcome \in { "saved", "updated" }
    /\ \E s \in Sessions \ { last.sid } :
          \E url \in session[s].wrote :
              /\ url \in UrlsOf(session[s].public_df)
              /\ \A i \in DOMAIN file.rows : file.rows[i].url # url

\* C22: after every Owner Mode add or delete, what a new session loads from
\* public_links.xlsx is the public collection of the session that ran it.
C22_FileEqualsPublicCollection ==
    (last.op \in { "add_link", "delete_selected" } /\ last.owner_mode) =>
        init_data(file) = session[last.sid].public_df

\* C23: an add or a delete run with Owner Mode off changes neither the file
\* nor the public collection of any session, nor anything of another session.
C23_NonOwnerLeavesPublic ==
    [][ (last'.op \in { "add_link", "delete_selected" } /\ ~last'.owner_mode) =>
            /\ file' = file
            /\ \A s \in Sessions : session'[s].public_df = session[s].public_df
            /\ \A s \in Sessions \ { last'.sid } : session'[s] = session[s]
      ]_vars

\* a delete with Owner Mode off had a public link among the selected urls
C23_Witness ==
    /\ last.op = "delete_selected" /\ ~last.owner_mode
    /\ \E url \in last.selected : url \in UrlsOf(session[last.sid].public_df)

\* C24: the count tags_section shows for a stored tag is the number of links
\* the browse filter lists for that tag alone.
C24_TagCountEqualsLinks ==
    \A t \in db.tags :
        tags_section(db, t.name) = Cardinality(browse_section(db, { t.name }))

====
